---- MODULE Spec2Model ----
(***************************************************************************)
(* Model of the OpenStreetMap MCP server: the session registry and the     *)
(* three handlers that share it (GET /sse, the request's close listener,   *)
(* POST /messages), the SIGTERM handler, and the tool path                 *)
(* (server.tool handler -> queryOpenStreetMap).                            *)
(*                                                                         *)
(* The process is single-threaded: every action below is one synchronous   *)
(* run of a handler between two suspension points (an await or the return  *)
(* to the event loop).                                                     *)
(***************************************************************************)
EXTENDS Integers, Sequences, FiniteSets, TLC

\* Bounds of the model.
MaxSessions == 2
MaxPosts == 2
MaxCalls == 1
MaxQueryLen == 2
MaxResults == 1

VARIABLES
  transports,     \* server.ts:18  the registry object: own keys -> transport
  sse,            \* per connection: position of the GET /sse handler
  closeListener,  \* per connection: state of the req.on('close') callback
  reqClosed,      \* per connection: the request's close signal was emitted
  resEnded,       \* per connection: res.end() was called (res.writableEnded)
  posts,          \* per POST /messages request: position, inputs, response
  running,        \* the process has not exited
  exitCode,       \* argument of process.exit, -1 while running
  calls           \* per tool invocation: position, query, URL, return value

vars == <<transports, sse, closeListener, reqClosed, resEnded, posts,
          running, exitCode, calls>>

Sessions == 1..MaxSessions
PostIds == 1..MaxPosts
CallIds == 1..MaxCalls

\* transport.sessionId: the SDK mints a fresh random UUID per transport; the
\* n-th GET /sse gets the n-th id.
SessionId(s) == <<"uuid", s>>

\* Property names every object literal inherits from Object.prototype
\* (one representative).
ObjectPrototypeKeys == {<<"constructor">>}

\* req.query.sessionId as a property key: a minted or guessable UUID, a name
\* found on Object.prototype, or "undefined" when the parameter is missing.
RequestKeys == {SessionId(s) : s \in Sessions} \cup ObjectPrototypeKeys
                 \cup {<<"undefined">>}

\* req.body as the transport sees it: a frame the command processor can
\* decode, or one it cannot.
Payloads == {"frame", "undecodable"}

NoKey == <<>>
IdlePost == [pc |-> "idle", sid |-> NoKey, payload |-> "frame",
             status |-> 0, target |-> 0]

\* transports[sessionId] on a plain object: an own key yields the stored
\* transport, an inherited name yields the prototype's member, anything else
\* undefined.
Lookup(reg, key) ==
  IF key \in DOMAIN reg THEN [kind |-> "transport", t |-> reg[key]]
  ELSE IF key \in ObjectPrototypeKeys THEN [kind |-> "inherited", t |-> 0]
  ELSE [kind |-> "undefined", t |-> 0]

\* if (transport): undefined is the only falsy outcome of the lookup.
Truthy(v) == v.kind /= "undefined"

\* delete transports[key]
Delete(reg, key) == [k \in DOMAIN reg \ {key} |-> reg[k]]

\* Variant: every transport is stored under the first session's id.
InsertSharedKey(reg, key, t) ==
  [k \in DOMAIN reg \cup {SessionId(1)} |->
     IF k = SessionId(1) THEN t ELSE reg[k]]

\* transports[key] = t
Insert(reg, key, t) == [k \in DOMAIN reg \cup {key} |->
                          IF k = key THEN t ELSE reg[k]]

(***************************************************************************)
(* Values of the tool path.  A JavaScript value is a tagged record; a      *)
(* string is a sequence of pieces (a query is a sequence of its            *)
(* characters), so that templates are concatenations.                      *)
(***************************************************************************)
Str(x) == [t |-> "string", v |-> x]
Num(n) == [t |-> "number", v |-> n]
Bool(b) == [t |-> "boolean", v |-> b]
Obj(o) == [t |-> "object", v |-> o]
NaN == [t |-> "NaN"]
Null == [t |-> "null"]
Undefined == [t |-> "undefined"]

\* Characters a query is drawn from: a letter, a blank, and a high surrogate
\* code unit, which no low surrogate follows in this alphabet.
HighSurrogate == "\\uD800"
LowSurrogate == "\\uDC00"
QueryChars == {"a", " ", HighSurrogate}
WhiteSpace == {" ", "\t", "\n"}

RECURSIVE SeqsUpTo(_, _)
SeqsUpTo(S, n) ==
  IF n = 0 THEN {<<>>}
  ELSE LET shorter == SeqsUpTo(S, n - 1) IN
       shorter \cup {Append(q, c) : q \in {r \in shorter : Len(r) = n - 1},
                                    c \in S}

\* params.query as the schema z.string() admits it: any string.
Queries == SeqsUpTo(QueryChars, MaxQueryLen)

\* String.prototype.trim
RECURSIVE TrimStart(_)
TrimStart(q) ==
  IF q /= <<>> /\ Head(q) \in WhiteSpace THEN TrimStart(Tail(q)) ELSE q

RECURSIVE TrimEnd(_)
TrimEnd(q) ==
  IF q /= <<>> /\ q[Len(q)] \in WhiteSpace
  THEN TrimEnd(SubSeq(q, 1, Len(q) - 1)) ELSE q

Trim(q) == TrimEnd(TrimStart(q))

\* !query || query.trim().length === 0
IsBlank(q) == q = <<>> \/ Len(Trim(q)) = 0

\* A surrogate code unit that is not half of a pair.
LoneSurrogateAt(q, i) ==
  \/ q[i] = HighSurrogate /\ (i = Len(q) \/ q[i + 1] /= LowSurrogate)
  \/ q[i] = LowSurrogate /\ (i = 1 \/ q[i - 1] /= HighSurrogate)

\* One character, percent-encoded.
EncodeChar(c) == IF c = " " THEN "%20" ELSE c

\* encodeURIComponent: throws URIError on a lone surrogate, otherwise
\* escapes character by character.
EncodeURIComponent(q) ==
  IF \E i \in 1..Len(q) : LoneSurrogateAt(q, i)
  THEN [threw |-> TRUE, v |-> <<"URIError: URI malformed">>]
  ELSE [threw |-> FALSE, v |-> [i \in 1..Len(q) |-> EncodeChar(q[i])]]

ApiUrl(encodedQuery) ==
  <<"https://nominatim.openstreetmap.org/search?q=">> \o encodedQuery
    \o <<"&format=json&limit=1">>

\* parseFloat, to thousandths: leading blanks, a sign, digits, a fraction;
\* NaN when no digit is found.
Digits == <<"0", "1", "2", "3", "4", "5", "6", "7", "8", "9">>
IsDigit(c) == \E d \in 1..10 : Digits[d] = c
DigitValue(c) == (CHOOSE d \in 1..10 : Digits[d] = c) - 1

RECURSIVE DigitPrefix(_)
DigitPrefix(s) ==
  IF s /= <<>> /\ IsDigit(Head(s)) THEN <<Head(s)>> \o DigitPrefix(Tail(s))
  ELSE <<>>

RECURSIVE IntOf(_)
IntOf(ds) ==
  IF ds = <<>> THEN 0
  ELSE 10 * IntOf(SubSeq(ds, 1, Len(ds) - 1)) + DigitValue(ds[Len(ds)])

Thousandths(fs) ==
  LET d(i) == IF i <= Len(fs) THEN DigitValue(fs[i]) ELSE 0
  IN 100 * d(1) + 10 * d(2) + d(3)

ParseFloat(str) ==
  LET s1 == TrimStart(str)
      neg == s1 /= <<>> /\ Head(s1) = "-"
      s2 == IF s1 /= <<>> /\ Head(s1) \in {"-", "+"} THEN Tail(s1) ELSE s1
      ip == DigitPrefix(s2)
      rest == SubSeq(s2, Len(ip) + 1, Len(s2))
      fp == IF rest /= <<>> /\ Head(rest) = "." THEN DigitPrefix(Tail(rest))
            ELSE <<>>
      abs == 1000 * IntOf(ip) + Thousandths(fp)
  IN IF ip = <<>> /\ fp = <<>> THEN NaN
     ELSE Num(IF neg THEN 0 - abs ELSE abs)

\* JSON.stringify of an object, read back as the value the text denotes:
\* members that are undefined are left out, NaN becomes null.
Stringify(obj) ==
  [k \in {f \in DOMAIN obj : obj[f] /= Undefined} |->
     IF obj[k] = NaN THEN Null ELSE obj[k]]

\* Two places as Nominatim reports them (NominatimResult); class and type
\* are optional.
PlaceA ==
  [display_name |-> Str(<<"Tour Eiffel, Paris">>),
   lat |-> <<"4", "8", ".", "8", "5", "8">>, lon |-> <<"2", ".", "2", "9">>,
   address |-> Obj([city |-> "Paris"]),
   osm_type |-> Str(<<"way">>), osm_id |-> Num(5013364),
   class |-> Str(<<"tourism">>), type |-> Str(<<"attraction">>)]

PlaceB ==
  [display_name |-> Str(<<"Null Island">>),
   lat |-> <<"-", "0", ".", "5">>, lon |-> <<"n", "/", "a">>,
   address |-> Obj([country |-> "None"]),
   osm_type |-> Str(<<"node">>), osm_id |-> Num(1),
   class |-> Undefined, type |-> Undefined]

Places == {PlaceA, PlaceB}

\* What the upstream can do to one fetch: reject it, or respond with a
\* status and a body that is no JSON, JSON null, or an array of places.
UpstreamStatuses == {200, 404, 503}
StatusText(st) ==
  IF st = 200 THEN "OK" ELSE IF st = 404 THEN "Not Found"
  ELSE "Service Unavailable"

Bodies ==
  {[json |-> "invalid", items |-> <<>>], [json |-> "null", items |-> <<>>]}
    \cup {[json |-> "array", items |-> r] : r \in SeqsUpTo(Places, MaxResults)}

Upstreams ==
  {[kind |-> "rejected", status |-> 0, body |-> [json |-> "invalid", items |-> <<>>]]}
    \cup {[kind |-> "response", status |-> st, body |-> b] :
            st \in UpstreamStatuses, b \in Bodies}

\* response.ok
ResponseOk(st) == st \in 200..299

\* The Error each failing step of the try block throws: fetch rejecting,
\* the status check, response.json() on a body that is no JSON.
FetchError == <<"request to nominatim.openstreetmap.org failed">>
StatusError(st) ==
  <<"Nominatim API request failed with status ", ToString(st), ": ",
    StatusText(st)>>
JsonError == <<"invalid json response body">>

\* The try block: the value returned, or the error thrown inside it.
TryBlock(query, up) ==
  IF up.kind = "rejected" THEN [threw |-> TRUE, v |-> FetchError]
  ELSE IF ~ResponseOk(up.status)
  THEN [threw |-> TRUE, v |-> StatusError(up.status)]
  ELSE IF up.body.json = "invalid" THEN [threw |-> TRUE, v |-> JsonError]
  ELSE IF up.body.json = "null" \/ Len(up.body.items) = 0
  THEN [threw |-> FALSE,
        v |-> [query |-> Str(query), found |-> Bool(FALSE),
               message |-> Str(<<"Could not find location information for \"">>
                                 \o query \o <<"\".">>)]]
  ELSE LET result == up.body.items[1] IN
       [threw |-> FALSE,
        v |-> [query |-> Str(query), found |-> Bool(TRUE),
               display_name |-> result.display_name,
               latitude |-> ParseFloat(result.lat),
               longitude |-> ParseFloat(result.lon),
               address_details |-> result.address,
               osm_type |-> result.osm_type, osm_id |-> result.osm_id,
               class |-> result.class, type |-> result.type]]

\* Variant: the structured error does not echo the query.
CatchBlockNoQuery(query, errorMessage) ==
  [found |-> Bool(FALSE),
   error |-> Str(<<"Failed to query OpenStreetMap: ">> \o errorMessage)]

\* The catch block: the structured error built from the Error's message.
CatchBlock(query, errorMessage) ==
  [query |-> Str(query), found |-> Bool(FALSE),
   error |-> Str(<<"Failed to query OpenStreetMap: ">> \o errorMessage)]

\* queryOpenStreetMap from the fetch on: try, then catch.
AfterFetch(query, up) ==
  LET r == TryBlock(query, up) IN
  IF r.threw THEN CatchBlock(query, r.v) ELSE r.v

\* The value returned for a blank query.
EmptyQueryResult == [error |-> Str(<<"Query parameter cannot be empty.">>)]

\* The tool handler's return value: one text block holding the result.
ToolContent(result) ==
  [content |-> <<[type |-> "text", text |-> Stringify(result)]>>]

NoUrl == <<>>
NoValue == [none |-> TRUE]
NoUpstream == [kind |-> "none", status |-> 0,
               body |-> [json |-> "invalid", items |-> <<>>]]
IdleCall == [pc |-> "idle", session |-> 0, query |-> <<>>, url |-> NoUrl,
             upstream |-> NoUpstream, value |-> NoValue, sent |-> "none"]

\* What becomes of the handler's outcome when the command processor sends
\* it down the session's channel: delivered while the connection is open, a
\* caught failure (dropped) once it has closed.
ChannelSend(s) == IF reqClosed[s] THEN "dropped" ELSE "delivered"

Init ==
  /\ transports = <<>>
  /\ sse = [s \in Sessions |-> "idle"]
  /\ closeListener = [s \in Sessions |-> "none"]
  /\ reqClosed = [s \in Sessions |-> FALSE]
  /\ resEnded = [s \in Sessions |-> FALSE]
  /\ posts = [p \in PostIds |-> IdlePost]
  /\ running = TRUE
  /\ exitCode = -1
  /\ calls = [c \in CallIds |-> IdleCall]

\* Variant: the transport is stored only once the handshake is over.
SseRequestInsertLate(s) ==
  /\ running
  /\ sse[s] = "idle"
  /\ \A r \in 1..(s - 1) : sse[r] /= "idle"
  /\ sse' = [sse EXCEPT ![s] = "connecting"]
  /\ UNCHANGED <<transports, closeListener, reqClosed, resEnded, posts,
                 running, exitCode, calls>>

\* GET /sse up to the await: headers, McpServer with its tool, the transport,
\* the registry insert, then server.connect(transport) is awaited.
SseRequest(s) ==
  /\ running
  /\ sse[s] = "idle"
  /\ \A r \in 1..(s - 1) : sse[r] /= "idle"
  /\ transports' = Insert(transports, SessionId(s), s)
  /\ sse' = [sse EXCEPT ![s] = "connecting"]
  /\ UNCHANGED <<closeListener, reqClosed, resEnded, posts, running,
                 exitCode, calls>>

\* server.connect resolved: the handler resumes, registers the close
\* listener and returns.
HandshakeSucceed(s) ==
  /\ running
  /\ sse[s] = "connecting"
  /\ sse' = [sse EXCEPT ![s] = "connected"]
  /\ closeListener' = [closeListener EXCEPT ![s] = "registered"]
  /\ UNCHANGED <<transports, reqClosed, resEnded, posts, running, exitCode,
                 calls>>

\* server.connect rejected: the catch block ends the response and returns.
HandshakeFail(s) ==
  /\ running
  /\ sse[s] = "connecting"
  /\ sse' = [sse EXCEPT ![s] = "failed"]
  /\ resEnded' = [resEnded EXCEPT ![s] = TRUE]
  /\ UNCHANGED <<transports, closeListener, reqClosed, posts, running,
                 exitCode, calls>>

\* Variant: the close listener runs but leaves the entry in place.
ConnCloseNoEvict(s) ==
  /\ running
  /\ sse[s] /= "idle"
  /\ ~reqClosed[s]
  /\ reqClosed' = [reqClosed EXCEPT ![s] = TRUE]
  /\ closeListener' = [closeListener EXCEPT ![s] =
                         IF @ = "registered" THEN "fired" ELSE @]
  /\ UNCHANGED <<transports, sse, resEnded, posts, running, exitCode, calls>>

\* Variant: the close listener empties the registry.
ConnCloseEvictAll(s) ==
  /\ running
  /\ sse[s] /= "idle"
  /\ ~reqClosed[s]
  /\ reqClosed' = [reqClosed EXCEPT ![s] = TRUE]
  /\ IF closeListener[s] = "registered"
     THEN /\ transports' = <<>>
          /\ closeListener' = [closeListener EXCEPT ![s] = "fired"]
     ELSE UNCHANGED <<transports, closeListener>>
  /\ UNCHANGED <<sse, resEnded, posts, running, exitCode, calls>>

\* The connection's close signal (the client went away, or the response was
\* ended): emitted once; a listener registered by then runs in the same step.
ConnClose(s) ==
  /\ running
  /\ sse[s] /= "idle"
  /\ ~reqClosed[s]
  /\ reqClosed' = [reqClosed EXCEPT ![s] = TRUE]
  /\ IF closeListener[s] = "registered"
     THEN /\ transports' = Delete(transports, SessionId(s))
          /\ closeListener' = [closeListener EXCEPT ![s] = "fired"]
     ELSE UNCHANGED <<transports, closeListener>>
  /\ UNCHANGED <<sse, resEnded, posts, running, exitCode, calls>>

\* POST /messages up to its first suspension: the lookup, then either the
\* 404, or the call of handleMessage (awaited), or the catch block when the
\* call itself throws (the value found has no handleMessage method).
\* The body is kept only while handleMessage holds it.
PostReceive(p, sid, payload) ==
  /\ running
  /\ posts[p].pc = "idle"
  /\ \A q \in 1..(p - 1) : posts[q].pc /= "idle"
  /\ LET transport == Lookup(transports, sid) IN
     posts' = [posts EXCEPT ![p] =
       IF Truthy(transport)
       THEN IF transport.kind = "transport"
            THEN [pc |-> "awaiting", sid |-> sid, payload |-> payload,
                  status |-> 0, target |-> transport.t]
            ELSE [IdlePost EXCEPT !.pc = "done", !.sid = sid, !.status = 500]
       ELSE [IdlePost EXCEPT !.pc = "done", !.sid = sid, !.status = 404]]
  /\ UNCHANGED <<transports, sse, closeListener, reqClosed, resEnded,
                 running, exitCode, calls>>

\* Variant: a rejected handleMessage also drops the session's entry.
PostSettleTearDown(p) ==
  /\ running
  /\ posts[p].pc = "awaiting"
  /\ posts' = [posts EXCEPT ![p].pc = "done",
                            ![p].payload = IdlePost.payload,
                            ![p].status = IF posts[p].payload = "frame"
                                          THEN 200 ELSE 500]
  /\ transports' = IF posts[p].payload = "frame" THEN transports
                   ELSE Delete(transports, posts[p].sid)
  /\ UNCHANGED <<sse, closeListener, reqClosed, resEnded, running, exitCode,
                 calls>>

\* Variant: a request whose session was evicted meanwhile is never settled.
PostSettleCancelled(p) ==
  /\ running
  /\ posts[p].pc = "awaiting"
  /\ posts[p].sid \in DOMAIN transports
  /\ posts' = [posts EXCEPT ![p].pc = "done",
                            ![p].payload = IdlePost.payload,
                            ![p].status = IF posts[p].payload = "frame"
                                          THEN 200 ELSE 500]
  /\ UNCHANGED <<transports, sse, closeListener, reqClosed, resEnded,
                 running, exitCode, calls>>

\* handleMessage settled: resolved for a decodable frame (200), rejected for
\* an undecodable one (500).
PostSettle(p) ==
  /\ running
  /\ posts[p].pc = "awaiting"
  /\ posts' = [posts EXCEPT ![p].pc = "done",
                            ![p].payload = IdlePost.payload,
                            ![p].status = IF posts[p].payload = "frame"
                                          THEN 200 ELSE 500]
  /\ UNCHANGED <<transports, sse, closeListener, reqClosed, resEnded,
                 running, exitCode, calls>>

\* Variant: the handler exits with a failure code.
SigtermExitOne ==
  /\ running
  /\ running' = FALSE
  /\ exitCode' = 1
  /\ UNCHANGED <<transports, sse, closeListener, reqClosed, resEnded, posts,
                 calls>>

\* process.on('SIGTERM'): the loop over the transports does nothing, then
\* process.exit(0).
Sigterm ==
  /\ running
  /\ running' = FALSE
  /\ exitCode' = 0
  /\ UNCHANGED <<transports, sse, closeListener, reqClosed, resEnded, posts,
                 calls>>

\* The tool handler is called with decoded params by the command processor
\* of session s and runs queryOpenStreetMap up to the fetch: a blank query
\* returns at once, a query that cannot be encoded throws out of the
\* function and so out of the handler, any other is fetched.
ToolInvoke(c, s, query) ==
  /\ running
  /\ sse[s] = "connected"
  /\ calls[c].pc = "idle"
  /\ \A d \in 1..(c - 1) : calls[d].pc /= "idle"
  /\ LET encodedQuery == EncodeURIComponent(query) IN
     calls' = [calls EXCEPT ![c] =
       IF IsBlank(query)
       THEN [IdleCall EXCEPT !.pc = "returned", !.session = s,
                             !.query = query,
                             !.value = ToolContent(EmptyQueryResult),
                             !.sent = ChannelSend(s)]
       ELSE IF encodedQuery.threw
       THEN [IdleCall EXCEPT !.pc = "thrown", !.session = s,
                             !.query = query,
                             !.value = [error |-> encodedQuery.v],
                             !.sent = ChannelSend(s)]
       ELSE [IdleCall EXCEPT !.pc = "fetching", !.session = s,
                             !.query = query,
                             !.url = ApiUrl(encodedQuery.v)]]
  /\ UNCHANGED <<transports, sse, closeListener, reqClosed, resEnded, posts,
                 running, exitCode>>

\* The fetch settled: the rest of queryOpenStreetMap runs and the handler
\* returns its result as content.
ToolFetchSettle(c, up) ==
  /\ running
  /\ calls[c].pc = "fetching"
  /\ calls' = [calls EXCEPT
       ![c].pc = "returned",
       ![c].upstream = up,
       ![c].value = ToolContent(AfterFetch(calls[c].query, up)),
       ![c].sent = ChannelSend(calls[c].session)]
  /\ UNCHANGED <<transports, sse, closeListener, reqClosed, resEnded, posts,
                 running, exitCode>>

Next ==
  \/ \E s \in Sessions : SseRequest(s)
  \/ \E s \in Sessions : HandshakeSucceed(s)
  \/ \E s \in Sessions : HandshakeFail(s)
  \/ \E s \in Sessions : ConnClose(s)
  \/ \E p \in PostIds, sid \in RequestKeys, payload \in Payloads :
       PostReceive(p, sid, payload)
  \/ \E p \in PostIds : PostSettle(p)
  \/ Sigterm

Spec == Init /\ [][Next]_vars

\* The tool path of one connection: its lifecycle and the invocations its
\* command processor makes.
ToolNext ==
  \/ SseRequest(1)
  \/ HandshakeSucceed(1)
  \/ HandshakeFail(1)
  \/ ConnClose(1)
  \/ \E c \in CallIds, query \in Queries : ToolInvoke(c, 1, query)
  \/ \E c \in CallIds, up \in Upstreams : ToolFetchSettle(c, up)
  \/ Sigterm

ToolSpec == Init /\ [][ToolNext]_vars

\* Request p carried a frame that the transport it was handed to decoded.
Decoded(p) ==
  /\ posts[p].target /= 0
  /\ \/ posts[p].pc = "awaiting" /\ posts[p].payload = "frame"
     \/ posts[p].status = 200

\* The command processor that received request p calls the tool handler
\* with the params of the decoded frame.
ToolDispatch(c, p, query) ==
  /\ Decoded(p)
  /\ ToolInvoke(c, posts[p].target, query)

\* Representative queries (blank, plain, not encodable) and upstream
\* outcomes (rejected, one place found) for the whole path.
PathQueries == {<<>>, <<"a">>, <<HighSurrogate>>}
PathUpstreams ==
  {[kind |-> "rejected", status |-> 0,
    body |-> [json |-> "invalid", items |-> <<>>]],
   [kind |-> "response", status |-> 200,
    body |-> [json |-> "array", items |-> <<PlaceA>>]]}

\* The whole path of one connection: its lifecycle, the POSTs carrying its
\* id, and the tool invocations those POSTs lead to.
PathNext ==
  \/ SseRequest(1)
  \/ HandshakeSucceed(1)
  \/ HandshakeFail(1)
  \/ ConnClose(1)
  \/ \E p \in PostIds, payload \in Payloads :
       PostReceive(p, SessionId(1), payload)
  \/ \E p \in PostIds : PostSettle(p)
  \/ \E c \in CallIds, p \in PostIds, query \in PathQueries :
       ToolDispatch(c, p, query)
  \/ \E c \in CallIds, up \in PathUpstreams : ToolFetchSettle(c, up)
  \/ Sigterm

PathSpec == Init /\ [][PathNext]_vars

(***************************************************************************)
(* Properties of the session lifecycle and the router.                     *)
(***************************************************************************)

\* Request p is received in this step.
Received(p) == posts[p].pc = "idle" /\ posts'[p].pc /= "idle"

\* C1: a POST whose sessionId is not a key of the registry when the handler
\* looks it up is answered 404 and is forwarded to no command processor.
C1_UnknownSessionIs404 ==
  [][\A p \in PostIds :
       (Received(p) /\ posts'[p].sid \notin DOMAIN transports)
         => (posts'[p].pc = "done" /\ posts'[p].status = 404
             /\ posts'[p].target = 0)]_vars

\* C2: from the registry insert on (during the handshake and after it) and
\* until the connection closes, a POST with the minted id is found and
\* handed to that session's transport, and a decodable frame is answered 200.
C2_MintedIdUsable ==
  /\ [][\A p \in PostIds, s \in Sessions :
         (Received(p) /\ posts'[p].sid = SessionId(s)
            /\ sse[s] \in {"connecting", "connected"} /\ ~reqClosed[s])
           => (posts'[p].pc = "awaiting" /\ posts'[p].target = s)]_vars
  /\ [][\A p \in PostIds :
         (posts[p].pc = "awaiting" /\ posts[p].payload = "frame"
            /\ posts'[p].pc = "done")
           => posts'[p].status = 200]_vars

\* C2 witness: a POST for a session still in its handshake was answered 200.
C2_Witness ==
  \E p \in PostIds, s \in Sessions :
    /\ sse[s] = "connecting" /\ ~reqClosed[s]
    /\ posts[p].sid = SessionId(s) /\ posts[p].target = s
    /\ posts[p].status = 200

\* C3: when the connection of a session whose handshake has succeeded emits
\* its close signal, the id leaves the registry in that very step, and every
\* POST looked up for that id afterwards is answered 404.
C3_DisconnectEvicts ==
  /\ [][\A s \in Sessions :
         (sse[s] = "connected" /\ ~reqClosed[s] /\ reqClosed'[s])
           => SessionId(s) \notin DOMAIN transports']_vars
  /\ [][\A p \in PostIds, s \in Sessions :
         (Received(p) /\ posts'[p].sid = SessionId(s)
            /\ closeListener[s] = "fired")
           => (posts'[p].pc = "done" /\ posts'[p].status = 404)]_vars

\* C3 witness: a session answered an earlier POST with 200, closed, and a
\* later POST with the same id got 404.
C3_Witness ==
  \E s \in Sessions, p \in PostIds, q \in PostIds :
    /\ p < q
    /\ closeListener[s] = "fired"
    /\ posts[p].target = s /\ posts[p].status = 200
    /\ posts[q].sid = SessionId(s) /\ posts[q].status = 404

\* C4: once the failure path of GET /sse has returned, the response is ended
\* and the registry holds no entry for that session.
C4_FailedHandshakeCleansUp ==
  \A s \in Sessions :
    sse[s] = "failed" => (resEnded[s] /\ SessionId(s) \notin DOMAIN transports)

\* C5: a POST whose processing throws is answered 500 and the step leaves
\* the registry as it was, so the session is still found afterwards.
C5_FailedMessageKeepsSession ==
  [][\A p \in PostIds :
       (posts[p].pc = "awaiting" /\ posts'[p].pc = "done")
         => /\ posts[p].payload = "undecodable" => posts'[p].status = 500
            /\ posts'[p].status = 500 => transports' = transports]_vars

\* C5 witness: one POST of a session failed with 500 and a later POST of the
\* same session was found and dispatched, the session still registered.
C5_Witness ==
  \E s \in Sessions, p \in PostIds, q \in PostIds :
    /\ p < q
    /\ posts[p].target = s /\ posts[p].status = 500
    /\ posts[q].target = s /\ posts[q].pc = "awaiting"
    /\ Lookup(transports, SessionId(s)) = [kind |-> "transport", t |-> s]

\* C9: SIGTERM can be taken in every state of the running process, it exits
\* with code 0 whatever is registered or in flight, and nothing changes the
\* registry or starts a session afterwards.
C9_SigtermExitsZero ==
  /\ [](running => ENABLED Sigterm)
  /\ [](~running => exitCode = 0)
  /\ [][(running /\ ~running') =>
          (exitCode' = 0 /\ transports' = transports /\ sse' = sse)]_vars
  /\ [][~running => (transports' = transports /\ sse' = sse /\ ~running')]_vars

\* C9 witness: the process exited 0 with a registered session, a pending
\* handshake and a message dispatch in flight.
C9_Witness ==
  /\ ~running /\ exitCode = 0
  /\ \E s \in Sessions : sse[s] = "connected" /\ SessionId(s) \in DOMAIN transports
  /\ \E s \in Sessions : sse[s] = "connecting"
  /\ \E p \in PostIds : posts[p].pc = "awaiting"

\* C10: every key of the registry belongs to a connection whose close
\* signal has not been emitted.
C10_RegistryKeysOpen ==
  \A s \in Sessions : SessionId(s) \in DOMAIN transports => ~reqClosed[s]

(***************************************************************************)
(* Properties of the tool path.                                            *)
(***************************************************************************)

\* A query that is empty or made of white space only.
WhitespaceOnly(q) == \A i \in 1..Len(q) : q[i] \in WhiteSpace

\* The envelope a finished invocation handed back: the value its single text
\* block serializes.
Envelope(c) == calls[c].value.content[1].text

\* C6: for an empty or whitespace-only query the invocation returns the
\* envelope {found: false, error: "Query parameter cannot be empty."} and
\* contacts no URL.
C6_BlankQueryEnvelope ==
  \A c \in CallIds :
    (calls[c].pc /= "idle" /\ WhitespaceOnly(calls[c].query))
      => /\ calls[c].pc = "returned"
         /\ calls[c].url = NoUrl
         /\ DOMAIN Envelope(c) = {"found", "error"}
         /\ Envelope(c).found = Bool(FALSE)
         /\ Envelope(c).error = Str(<<"Query parameter cannot be empty.">>)

\* C7: whatever the query and whatever the collaborator does, an invocation
\* that has finished has returned a single text block (it has not thrown),
\* and for a failure the block holds an envelope with found false and an
\* error text.
C7_NoFailureEscapes ==
  \A c \in CallIds :
    calls[c].pc \in {"returned", "thrown"}
      => /\ calls[c].pc = "returned"
         /\ Len(calls[c].value.content) = 1
         /\ calls[c].value.content[1].type = "text"

\* The upstream answered with a success status and a body that parses.
UpstreamSuccess(up) ==
  up.kind = "response" /\ up.status >= 200 /\ up.status <= 299
    /\ up.body.json /= "invalid"

\* The number of results in the upstream's answer.
ResultCount(up) == IF up.body.json = "array" THEN Len(up.body.items) ELSE 0

\* latitude and longitude of the two places, in thousandths (null: no number)
ExpectedLatitude(place) == IF place = PlaceA THEN Num(48858) ELSE Num(0 - 500)
ExpectedLongitude(place) == IF place = PlaceA THEN Num(2290) ELSE Null

\* C8: for a non-blank query that was fetched, the envelope echoes the query
\* unchanged; it is found:true with the first result's fields exactly when
\* the upstream answered with success and at least one result; it is
\* {query, found:false, message} on success with no result and
\* {query, found:false, error} on a failure status or a thrown fetch or
\* parse error.
C8_ResultFollowsUpstream ==
  \A c \in CallIds :
    (calls[c].pc = "returned" /\ ~WhitespaceOnly(calls[c].query))
      => LET env == Envelope(c)
             up == calls[c].upstream
             first == up.body.items[1]
         IN /\ {"query", "found"} \subseteq DOMAIN env
            /\ env.query = Str(calls[c].query)
            /\ env.found = Bool(UpstreamSuccess(up) /\ ResultCount(up) >= 1)
            /\ (UpstreamSuccess(up) /\ ResultCount(up) >= 1)
                 => /\ env.display_name = first.display_name
                    /\ env.latitude = ExpectedLatitude(first)
                    /\ env.longitude = ExpectedLongitude(first)
                    /\ env.address_details = first.address
                    /\ env.osm_type = first.osm_type
                    /\ env.osm_id = first.osm_id
                    /\ \A f \in {"class", "type"} :
                         IF first[f] = Undefined THEN f \notin DOMAIN env
                         ELSE env[f] = first[f]
            /\ (UpstreamSuccess(up) /\ ResultCount(up) = 0)
                 => DOMAIN env = {"query", "found", "message"}
            /\ ~UpstreamSuccess(up)
                 => DOMAIN env = {"query", "found", "error"}

\* C8 witness: a query with a leading blank was fetched, the upstream
\* answered 200 with a place, and the envelope is found:true with the query
\* as given and the parsed latitude.
C8_Witness ==
  \E c \in CallIds :
    /\ calls[c].pc = "returned"
    /\ calls[c].query = <<" ", "a">>
    /\ calls[c].upstream.status = 200
    /\ Envelope(c).found = Bool(TRUE)
    /\ Envelope(c).query = Str(<<" ", "a">>)
    /\ Envelope(c).latitude = Num(48858)

(***************************************************************************)
(* Properties of concurrent dispatch and of the failure envelopes.         *)
(***************************************************************************)

\* C11: of the POSTed messages handed to one session's transport, at most
\* one is being processed at any time.
C11_PerSessionSerialized ==
  \A p \in PostIds, q \in PostIds :
    (p /= q /\ posts[p].pc = "awaiting" /\ posts[q].pc = "awaiting")
      => posts[p].target /= posts[q].target

\* The envelope the tool hands back for a blank query.
BlankQueryEnvelope == ToolContent(EmptyQueryResult).content[1].text

\* C12: the envelope of an upstream failure (rejected fetch, failure status,
\* body that does not parse) has the same fields as the envelope of a blank
\* query, and the two agree on every field but the error text.
C12_FailureEnvelopesSameShape ==
  \A c \in CallIds :
    (calls[c].pc = "returned" /\ ~WhitespaceOnly(calls[c].query)
       /\ ~UpstreamSuccess(calls[c].upstream))
      => /\ DOMAIN Envelope(c) = DOMAIN BlankQueryEnvelope
         /\ \A f \in DOMAIN Envelope(c) \ {"error"} :
              Envelope(c)[f] = BlankQueryEnvelope[f]

\* C13: a connection's close cancels nothing in flight.  A POST suspended in
\* handleMessage when its session's connection has closed can still settle,
\* and settles with 200 or 500; a fetch in flight can still settle, and the
\* handler then returns; the send down the closed channel is dropped; none
\* of these steps ends the process or changes the registry, and an evicted
\* id never comes back.
C13_CloseCancelsNothing ==
  /\ [](\A p \in PostIds :
          (running /\ posts[p].pc = "awaiting" /\ reqClosed[posts[p].target])
            => ENABLED PostSettle(p))
  /\ [](\A c \in CallIds :
          (running /\ calls[c].pc = "fetching" /\ reqClosed[calls[c].session])
            => ENABLED (\E up \in PathUpstreams : ToolFetchSettle(c, up)))
  /\ [][\A p \in PostIds :
          (posts[p].pc = "awaiting" /\ posts'[p].pc = "done")
            => /\ posts'[p].status \in {200, 500}
               /\ running' /\ transports' = transports]_vars
  /\ [][\A c \in CallIds :
          (calls[c].pc = "fetching" /\ calls'[c].pc /= "fetching")
            => /\ calls'[c].pc = "returned"
               /\ reqClosed[calls[c].session] => calls'[c].sent = "dropped"
               /\ running' /\ transports' = transports]_vars
  /\ [](\A s \in Sessions :
          closeListener[s] = "fired" => SessionId(s) \notin DOMAIN transports)

\* C13 witness: the session was evicted; a POST found before the close was
\* answered 200, the fetch it led to returned after the close and its result
\* was dropped; the process is still running.
C13_Witness ==
  /\ running
  /\ closeListener[1] = "fired" /\ SessionId(1) \notin DOMAIN transports
  /\ \E p \in PostIds : posts[p].target = 1 /\ posts[p].status = 200
  /\ \E c \in CallIds :
       /\ calls[c].session = 1 /\ calls[c].pc = "returned"
       /\ calls[c].url /= NoUrl /\ calls[c].sent = "dropped"

(***************************************************************************)
(* Properties of routing and of the registry's frame.                      *)
(***************************************************************************)

C15_RouterLeavesRegistry ==
  /\ [][\A p \in PostIds :
          (Received(p) \/ (posts[p].pc = "awaiting" /\ posts'[p].pc = "done"))
            => transports' = transports]_vars
  /\ [][transports' /= transports =>
          \E s \in Sessions :
            \/ /\ sse[s] = "idle" /\ sse'[s] = "connecting"
               /\ transports' = Insert(transports, SessionId(s), s)
            \/ /\ ~reqClosed[s] /\ reqClosed'[s]
               /\ transports' = Delete(transports, SessionId(s))]_vars

\* C15 witness: one POST was answered 500 and another 404 while the session
\* of the first is still registered.
C15_Witness ==
  \E p \in PostIds, q \in PostIds :
    /\ posts[p].status = 500 /\ posts[p].target /= 0
    /\ posts[p].sid \in DOMAIN transports
    /\ posts[q].status = 404

====
